---- MODULE Spec2Model ----
(***************************************************************************)
(* Model of mutils/mutations.py: the Mutation notation class and the       *)
(* MutationSpace enumerator.                                               *)
(*                                                                         *)
(* A Python str is a sequence of one-character strings, a tuple or list a  *)
(* sequence.  A call that raises is a result record whose exc field names  *)
(* the exception; exc = "None" is a normal return.                         *)
(***************************************************************************)
EXTENDS Integers, Sequences, FiniteSets, TLC

VARIABLES muts, space, ret

vars == <<muts, space, ret>>

(***************************************************************************)
(* Bounds of the exploration.                                              *)
(***************************************************************************)
\* longest chain m, m.f(), m.f().g(), ... of Mutation objects kept alive
MaxMuts == 3
\* number of tokens a constructor string is built from
MaxTok == 3
\* number of positions (dict keys) of a MutationSpace
MaxPos == 3
\* number of rows of an Affilib table
MaxRows == 2

None == "None"

Min(a, b) == IF a < b THEN a ELSE b
Max(a, b) == IF a > b THEN a ELSE b

(***************************************************************************)
(* Python str and sequence primitives.                                     *)
(***************************************************************************)
\* s[lo:hi] for lo >= 0 and any integer hi (negative counts from the end)
PySlice(s, lo, hi) ==
    LET n == Len(s)
        h == IF hi < 0 THEN Max(n + hi, 0) ELSE Min(hi, n)
        l == Min(lo, n)
    IN  IF l + 1 > h THEN <<>> ELSE SubSeq(s, l + 1, h)

\* s[lo:]
PyFrom(s, lo) == PySlice(s, lo, Len(s))

\* s.replace(ch, '') for a one-character ch
RECURSIVE Remove(_, _)
Remove(s, ch) ==
    IF s = <<>> THEN <<>>
    ELSE IF Head(s) = ch THEN Remove(Tail(s), ch)
    ELSE <<Head(s)>> \o Remove(Tail(s), ch)

\* s.split(sep) for a one-character sep: always at least one piece
RECURSIVE Split(_, _)
Split(s, sep) ==
    IF \A i \in 1..Len(s) : s[i] # sep THEN <<s>>
    ELSE LET i == CHOOSE j \in 1..Len(s) :
                     s[j] = sep /\ \A k \in 1..(j - 1) : s[k] # sep
         IN  <<SubSeq(s, 1, i - 1)>> \o Split(SubSeq(s, i + 1, Len(s)), sep)

\* sep.join(xs)
RECURSIVE Join(_, _)
Join(sep, xs) ==
    IF xs = <<>> THEN <<>>
    ELSE IF Len(xs) = 1 THEN xs[1]
    ELSE xs[1] \o sep \o Join(sep, Tail(xs))

\* concatenation of a sequence of strings
Cat(xs) == Join(<<>>, xs)

Digits == {"0", "1", "2", "3", "4", "5", "6", "7", "8", "9"}
Whitespace == {" ", "\t", "\n"}

DigitVal(c) ==
    CASE c = "0" -> 0 [] c = "1" -> 1 [] c = "2" -> 2 [] c = "3" -> 3
      [] c = "4" -> 4 [] c = "5" -> 5 [] c = "6" -> 6 [] c = "7" -> 7
      [] c = "8" -> 8 [] c = "9" -> 9

DigitChar(n) ==
    CASE n = 0 -> "0" [] n = 1 -> "1" [] n = 2 -> "2" [] n = 3 -> "3"
      [] n = 4 -> "4" [] n = 5 -> "5" [] n = 6 -> "6" [] n = 7 -> "7"
      [] n = 8 -> "8" [] n = 9 -> "9"

\* s.strip(): whitespace removed at both ends
RECURSIVE Strip(_)
Strip(s) ==
    IF s = <<>> THEN <<>>
    ELSE IF Head(s) \in Whitespace THEN Strip(Tail(s))
    ELSE IF s[Len(s)] \in Whitespace THEN Strip(SubSeq(s, 1, Len(s) - 1))
    ELSE s

RECURSIVE DecimalValue(_)
DecimalValue(s) ==
    IF s = <<>> THEN 0
    ELSE 10 * DecimalValue(SubSeq(s, 1, Len(s) - 1)) + DigitVal(s[Len(s)])

\* int(s): surrounding whitespace is ignored, then only decimal digits parse
PyInt(s) ==
    LET t == Strip(s)
    IN  IF t # <<>> /\ \A i \in 1..Len(t) : t[i] \in Digits
        THEN [exc |-> None, val |-> DecimalValue(t)]
        ELSE [exc |-> "ValueError: invalid literal for int()", val |-> None]

\* str(n) for n >= 0: canonical decimal, no leading zeros
RECURSIVE PyStr(_)
PyStr(n) ==
    IF n < 10 THEN <<DigitChar(n)>>
    ELSE PyStr(n \div 10) \o <<DigitChar(n % 10)>>

\* tuple(map(f, t)) where rs[i] is the result record of f(t[i]): the first
\* element that raises ends the call with its exception
MapResults(rs) ==
    IF \E i \in 1..Len(rs) : rs[i].exc # None
    THEN LET i == CHOOSE j \in 1..Len(rs) :
                     rs[j].exc # None /\ \A k \in 1..(j - 1) : rs[k].exc = None
         IN  [exc |-> rs[i].exc, val |-> None]
    ELSE [exc |-> None, val |-> [i \in 1..Len(rs) |-> rs[i].val]]

\* Bio.PDB.Polypeptide.three_to_one on the residue names used here
three_to_one(resname) ==
    CASE resname = "TYR" -> "Y" [] resname = "THR" -> "T"
      [] resname = "GLY" -> "G" [] resname = "ALA" -> "A"

(***************************************************************************)
(* class Mutation                                                          *)
(***************************************************************************)
\* mutant of MutationNew: the blanks are left in before the split
MutationNew_KeepsBlanks(mutstr, muttuple) ==
    IF mutstr # <<>> /\ muttuple # <<>>
    THEN [exc |-> "ValueError: Wrong constructor argument values.", val |-> None]
    ELSE IF mutstr # <<>>
    THEN [exc |-> None, val |-> Split(mutstr, ",")]
    ELSE [exc |-> None, val |-> muttuple]

\* Mutation.__init__(mutstr, muttuple): the stored muttuple, or the error
MutationNew(mutstr, muttuple) ==
    IF mutstr # <<>> /\ muttuple # <<>>
    THEN [exc |-> "ValueError: Wrong constructor argument values.", val |-> None]
    ELSE IF mutstr # <<>>
    THEN [exc |-> None, val |-> Split(Remove(mutstr, " "), ",")]
    ELSE [exc |-> None, val |-> muttuple]

\* mutant of revert_single: the middle slice starts one character late
revert_single_ShortMiddle(mut) ==
    IF mut = <<>> THEN [exc |-> "IndexError", val |-> None]
    ELSE [exc |-> None,
          val |-> <<mut[Len(mut)]>> \o PySlice(mut, 2, -1) \o <<mut[1]>>]

\* Mutation.revert_single(mut) = mut[-1] + mut[1:-1] + mut[0]
revert_single(mut) ==
    IF mut = <<>> THEN [exc |-> "IndexError", val |-> None]
    ELSE [exc |-> None,
          val |-> <<mut[Len(mut)]>> \o PySlice(mut, 1, -1) \o <<mut[1]>>]

\* mutant of rename_chains_single: dct.get(mut[1], mut[1]), an unmapped
\* chain id is kept instead of raising
rename_chains_single_Get(mut, dct) ==
    IF Len(mut) < 2 THEN [exc |-> "IndexError", val |-> None]
    ELSE [exc |-> None,
          val |-> PySlice(mut, 0, 1)
                  \o (IF mut[2] \in DOMAIN dct THEN dct[mut[2]] ELSE <<mut[2]>>)
                  \o PyFrom(mut, 2)]

\* Mutation.rename_chains_single(mut, dct) = mut[:1] + dct[mut[1]] + mut[2:]
rename_chains_single(mut, dct) ==
    IF Len(mut) < 2 THEN [exc |-> "IndexError", val |-> None]
    ELSE IF mut[2] \notin DOMAIN dct THEN [exc |-> "KeyError", val |-> None]
    ELSE [exc |-> None,
          val |-> PySlice(mut, 0, 1) \o dct[mut[2]] \o PyFrom(mut, 2)]

\* Mutation.revert(self): the muttuple of the new Mutation
revert(muttuple) ==
    LET r == MapResults([i \in 1..Len(muttuple) |-> revert_single(muttuple[i])])
    IN  IF r.exc # None THEN r ELSE MutationNew(<<>>, r.val)

\* Mutation.rename_chains(self, dct): the muttuple of the new Mutation
rename_chains(muttuple, dct) ==
    LET r == MapResults([i \in 1..Len(muttuple) |->
                            rename_chains_single(muttuple[i], dct)])
    IN  IF r.exc # None THEN r ELSE MutationNew(<<>>, r.val)

\* mutant of SelectedMutation: the last entry is examined
SelectedMutation_Last(muttuple) == muttuple[Len(muttuple)]

\* the entry is_mutation_reversed examines: self.muttuple[0]
SelectedMutation(muttuple) == muttuple[1]

\* Mutation.is_mutation_reversed(self, pdbfile, model_id): pdb is the parsed
\* structure [model_id], a function from <<chain id, position>> to the
\* three-letter residue name
is_mutation_reversed(muttuple, pdb) ==
    IF muttuple = <<>> THEN [exc |-> "IndexError", val |-> None]
    ELSE LET mut == SelectedMutation(muttuple)
         IN  IF Len(mut) < 2 THEN [exc |-> "IndexError", val |-> None]
             ELSE LET wtres   == mut[1]
                      chainid == mut[2]
                      pos     == PyInt(PySlice(mut, 2, -1))
                      mutres  == mut[Len(mut)]
                  IN  IF pos.exc # None THEN pos
                      ELSE IF <<chainid, pos.val>> \notin DOMAIN pdb
                      THEN [exc |-> "KeyError", val |-> None]
                      ELSE LET resname == three_to_one(pdb[<<chainid, pos.val>>])
                           IN  IF resname = wtres
                               THEN [exc |-> None, val |-> FALSE]
                               ELSE IF resname = mutres
                               THEN [exc |-> None, val |-> TRUE]
                               ELSE [exc |-> "ValueError: neither forward nor reverse",
                                     val |-> None]

\* Mutation.__str__(self)
MutationStr(muttuple) == Join(<<",">>, muttuple)

(***************************************************************************)
(* class MutationSpace                                                     *)
(*                                                                         *)
(* A dict is the sequence of its <<key, value>> items in insertion order,  *)
(* the keys distinct.  An optional argument is <<>> when it is None and    *)
(* <<v>> when it is given as v.                                            *)
(***************************************************************************)
Nothing == <<>>
Some(v) == <<v>>

\* dict.__setitem__: a new key is appended, a present key keeps its place
DictSet(d, key, value) ==
    IF \E i \in 1..Len(d) : d[i][1] = key
    THEN [i \in 1..Len(d) |-> IF d[i][1] = key THEN <<key, value>> ELSE d[i]]
    ELSE Append(d, <<key, value>>)

\* dict(pairs)
RECURSIVE DictFromPairs(_)
DictFromPairs(pairs) ==
    IF pairs = <<>> THEN <<>>
    ELSE LET n == Len(pairs)
         IN  DictSet(DictFromPairs(SubSeq(pairs, 1, n - 1)), pairs[n][1], pairs[n][2])

\* MutationSpace._dict_to_list(dct)
dict_to_list(dct) ==
    [i \in 1..Len(dct) |->
        [k \in 1..Len(dct[i][2]) |-> dct[i][1] \o <<dct[i][2][k]>>]]

\* MutationSpace.__init__(dct, lst)
MutationSpaceNew(dct, lst) ==
    IF dct # Nothing /\ lst # Nothing
    THEN [exc |-> "ValueError: Both dct and lst passed.", val |-> None]
    ELSE IF lst = Nothing /\ dct = Nothing
    THEN [exc |-> "TypeError", val |-> None]
    ELSE LET l == IF lst = Nothing THEN dict_to_list(dct[1]) ELSE lst[1]
         IN  [exc |-> None,
              val |-> [dct |-> dct, lst |-> l, n_pos |-> Len(l), built |-> TRUE]]

\* itertools.combinations(xs, r) as the list of its r-tuples, r >= 0
RECURSIVE Combinations(_, _)
Combinations(xs, r) ==
    IF r = 0 THEN << <<>> >>
    ELSE IF Len(xs) < r THEN <<>>
    ELSE LET withHead == Combinations(Tail(xs), r - 1)
         IN  [i \in 1..Len(withHead) |-> <<Head(xs)>> \o withHead[i]]
             \o Combinations(Tail(xs), r)

\* mutant of Product: the left-most list varies fastest
RECURSIVE Product(_)
Product_LeftFastest(xs) ==
    IF xs = <<>> THEN << <<>> >>
    ELSE LET rest == Product(Tail(xs))
             first == Head(xs)
         IN  Cat([j \in 1..Len(rest) |->
                     [i \in 1..Len(first) |-> <<first[i]>> \o rest[j]]])

\* itertools.product(*xs) as the list of its tuples
Product(xs) ==
    IF xs = <<>> THEN << <<>> >>
    ELSE LET rest == Product(Tail(xs))
             first == Head(xs)
         IN  Cat([i \in 1..Len(first) |->
                     [j \in 1..Len(rest) |-> <<first[i]>> \o rest[j]]])

\* math.prod / sum of a list of integers
RECURSIVE Prod(_)
Prod(ns) == IF ns = <<>> THEN 1 ELSE Head(ns) * Prod(Tail(ns))

RECURSIVE Sum(_)
Sum(ns) == IF ns = <<>> THEN 0 ELSE Head(ns) + Sum(Tail(ns))

\* list.remove(x): the first occurrence goes, ValueError if there is none
ListRemove(xs, x) ==
    IF \A i \in 1..Len(xs) : xs[i] # x
    THEN [exc |-> "ValueError: list.remove(x): x not in list", val |-> None]
    ELSE LET i == CHOOSE j \in 1..Len(xs) :
                     xs[j] = x /\ \A k \in 1..(j - 1) : xs[k] # x
         IN  [exc |-> None,
              val |-> SubSeq(xs, 1, i - 1) \o SubSeq(xs, i + 1, Len(xs))]

\* the value wt adds to a count in size
WildTypeCount(wt) == IF wt THEN 1 ELSE 0

\* mutant of SizeOfDegree: the option counts of a combination are added
SizeOfDegree_Adds(lst, d, wt) ==
    IF d = 0 THEN WildTypeCount(wt)
    ELSE LET combs == Combinations([i \in 1..Len(lst) |-> i], d)
         IN  WildTypeCount(wt)
             + Sum([c \in 1..Len(combs) |->
                      Sum([k \in 1..d |-> Len(lst[combs[c][k]])])])

\* MutationSpace.size(d, wt) for an explicit degree d >= 0
SizeOfDegree(lst, d, wt) ==
    IF d = 0 THEN WildTypeCount(wt)
    ELSE LET combs == Combinations([i \in 1..Len(lst) |-> i], d)
         IN  WildTypeCount(wt)
             + Sum([c \in 1..Len(combs) |->
                      Prod([k \in 1..d |-> Len(lst[combs[c][k]])])])

\* mutant of size: wt is passed on to the per-degree counts
size_PassesWt(lst, d, wt) ==
    IF d = Nothing
    THEN Sum([k \in 1..Len(lst) |-> SizeOfDegree(lst, k, wt)])
    ELSE SizeOfDegree(lst, d[1], wt)

\* MutationSpace.size(d, wt), d optional
size(lst, d, wt) ==
    IF d = Nothing
    THEN Sum([k \in 1..Len(lst) |-> SizeOfDegree(lst, k, FALSE)])
    ELSE SizeOfDegree(lst, d[1], wt)

\* the wild-type choice construct adds to a slot of the full space
WithWildType(slot) == slot \o << <<>> >>

\* mutant of ConstructFull: the identity entry is not removed
ConstructFull_KeepsIdentity(lst, sentinel) ==
    LET slots == IF sentinel THEN lst
                 ELSE [i \in 1..Len(lst) |-> WithWildType(lst[i])]
        prod == Product(slots)
        kept == [t \in 1..Len(prod) |-> SelectSeq(prod[t], LAMBDA m : m # <<>>)]
        strs == [t \in 1..Len(kept) |-> Join(<<",">>, kept[t])]
    IN  [exc |-> None, val |-> strs]

\* mutant of ConstructFull: the wild-type choice is added in the inner
\* call too
ConstructFull_AlwaysWildType(lst, sentinel) ==
    LET slots == [i \in 1..Len(lst) |-> WithWildType(lst[i])]
        prod == Product(slots)
        kept == [t \in 1..Len(prod) |-> SelectSeq(prod[t], LAMBDA m : m # <<>>)]
        strs == [t \in 1..Len(kept) |-> Join(<<",">>, kept[t])]
    IN  IF sentinel THEN [exc |-> None, val |-> strs]
        ELSE ListRemove(strs, <<>>)

\* the tail of construct (generate full space): sentinel is TRUE for the
\* inner call d = -1 made per combination, FALSE for d = None
ConstructFull(lst, sentinel) ==
    LET slots == IF sentinel THEN lst
                 ELSE [i \in 1..Len(lst) |-> WithWildType(lst[i])]
        prod == Product(slots)
        kept == [t \in 1..Len(prod) |-> SelectSeq(prod[t], LAMBDA m : m # <<>>)]
        strs == [t \in 1..Len(kept) |-> Join(<<",">>, kept[t])]
    IN  IF sentinel THEN [exc |-> None, val |-> strs]
        ELSE ListRemove(strs, <<>>)

\* MutationSpace.construct(d, n), d and n optional, d >= 0 when given
construct(lst, d, n) ==
    IF n # Nothing THEN [exc |-> "NotImplementedError", val |-> None]
    ELSE IF d = Some(0) THEN [exc |-> None, val |-> <<>>]
    ELSE IF d # Nothing
    THEN LET combs == Combinations(lst, d[1])
             parts == MapResults([c \in 1..Len(combs) |->
                                     ConstructFull(combs[c], TRUE)])
         IN  IF parts.exc # None THEN parts
             ELSE [exc |-> None, val |-> Cat(parts.val)]
    ELSE ConstructFull(lst, FALSE)

\* mutant of MissingWildType: the check is dropped
MissingWildType_Never(value, value_raw) == FALSE

\* the test of from_affilib that the residue list held the wild type
MissingWildType(value, value_raw) == Len(value) = Len(value_raw)

\* the loop of MutationSpace.from_affilib over the items of dct_raw, dct
\* being the dict built so far
RECURSIVE AffilibItems(_, _, _)
AffilibItems(items, pdb, dct) ==
    IF items = <<>> THEN [exc |-> None, val |-> dct]
    ELSE LET key_raw   == Head(items)[1]
             value_raw == Head(items)[2]
             pos       == PyInt(PySlice(key_raw, 0, -1))
         IN  IF pos.exc # None THEN pos
             ELSE LET chainid == key_raw[Len(key_raw)]
                  IN  IF <<chainid, pos.val>> \notin DOMAIN pdb
                      THEN [exc |-> "KeyError", val |-> None]
                      ELSE LET wt    == three_to_one(pdb[<<chainid, pos.val>>])
                               value == Remove(value_raw, wt)
                           IN  IF MissingWildType(value, value_raw)
                               THEN [exc |-> "ValueError: Residue list does not contain wild type",
                                     val |-> None]
                               ELSE AffilibItems(Tail(items), pdb,
                                        DictSet(dct, <<wt, chainid>> \o PyStr(pos.val), value))

\* MutationSpace.from_affilib(affilib_path, pdb_path): rows are the split
\* lines of the Affilib file, pdb the structure load_pdb returns
from_affilib(rows, pdb) ==
    LET r == AffilibItems(DictFromPairs(rows), pdb, <<>>)
    IN  IF r.exc # None THEN r ELSE MutationSpaceNew(Some(r.val), Nothing)

(***************************************************************************)
(* Inputs of the Mutation operations.                                      *)
(***************************************************************************)
YC17T == <<"Y", "C", "1", "7", "T">>
TA20A == <<"T", "A", "2", "0", "A">>

Tokens == {YC17T, TA20A, <<",">>, <<" ">>, <<"\t">>}

RECURSIVE TokenSeqs(_)
TokenSeqs(n) ==
    IF n = 0 THEN {<<>>}
    ELSE LET shorter == TokenSeqs(n - 1)
         IN  shorter \cup {Append(ts, t) : ts \in {x \in shorter : Len(x) = n - 1},
                                           t \in Tokens}

\* constructor strings: every concatenation of at most MaxTok tokens, and
\* the two-point mutation written with and without blanks after the comma
MutStrs ==
    {Cat(ts) : ts \in TokenSeqs(MaxTok)}
    \cup {Cat(<<YC17T, <<",">>, TA20A>>),
          Cat(<<YC17T, <<",">>, <<" ">>, TA20A>>),
          Cat(<<YC17T, <<",">>, <<"\t">>, TA20A>>),
          Cat(<<<<" ">>, YC17T, <<" ">>, <<",">>, TA20A, <<"\n">>>>)}

MutTuples == {<<>>, <<YC17T>>, <<TA20A, YC17T>>}

\* rename dicts: old chain id -> new chain id
RenameDicts ==
    {<<>>,
     ("C" :> <<"A">>),
     ("C" :> <<"A">>) @@ ("A" :> <<"B">>),
     ("C" :> <<"B", "B">>) @@ ("A" :> <<"C">>)}

Sites == {<<"C", 17>>, <<"A", 20>>}
ResNames == {"TYR", "THR", "GLY"}

\* parsed structures: every assignment of a residue to the two sites, and
\* one structure that lacks chain A
Pdbs == [Sites -> ResNames] \cup {(<<"C", 17>> :> "TYR")}

(***************************************************************************)
(* Mutation objects.  muts is the chain of Mutation objects alive: muts[1] *)
(* was built by the constructor, the first call, and muts[i+1] was         *)
(* returned by a method called on muts[i].  ret is the outcome of the last *)
(* call.                                                                   *)
(***************************************************************************)
MutObj(muttuple, by, src, arg) ==
    [muttuple |-> muttuple, by |-> by, src |-> src, arg |-> arg]

Call(op, self, arg, r, val) ==
    [op |-> op, self |-> self, arg |-> arg, exc |-> r.exc,
     val |-> IF r.exc = None THEN val ELSE None]

\* before the first call
NoCall == [op |-> None, self |-> 0, arg |-> None, exc |-> None, val |-> None]
NoSpace == [dct |-> <<>>, lst |-> <<>>, n_pos |-> 0, built |-> FALSE]

\* m = Mutation(mutstr, muttuple)
MutationInit(mutstr, muttuple) ==
    /\ ret.op = None
    /\ LET r == MutationNew(mutstr, muttuple)
           arg == [mutstr |-> mutstr, muttuple |-> muttuple]
       IN  /\ muts' = IF r.exc = None
                      THEN <<MutObj(r.val, "init", 0, arg)>>
                      ELSE muts
           /\ ret' = Call("init", 0, arg, r, 1)
    /\ UNCHANGED space

\* muts[last].revert()
Revert ==
    /\ muts # <<>>
    /\ Len(muts) < MaxMuts
    /\ LET self == Len(muts)
           r == revert(muts[self].muttuple)
       IN  /\ muts' = IF r.exc = None
                      THEN Append(muts, MutObj(r.val, "revert", self, None))
                      ELSE muts
           /\ ret' = Call("revert", self, None, r, self + 1)
    /\ UNCHANGED space

\* muts[last].rename_chains(dct)
RenameChains(dct) ==
    /\ muts # <<>>
    /\ Len(muts) < MaxMuts
    /\ LET self == Len(muts)
           r == rename_chains(muts[self].muttuple, dct)
       IN  /\ muts' = IF r.exc = None
                      THEN Append(muts, MutObj(r.val, "rename_chains", self, dct))
                      ELSE muts
           /\ ret' = Call("rename_chains", self, dct, r, self + 1)
    /\ UNCHANGED space

\* muts[last].is_mutation_reversed(pdbfile)
IsMutationReversed(pdb) ==
    /\ muts # <<>>
    /\ LET self == Len(muts)
           r == is_mutation_reversed(muts[self].muttuple, pdb)
       IN  ret' = Call("is_mutation_reversed", self, pdb, r, r.val)
    /\ UNCHANGED <<muts, space>>

\* str(muts[last])
Str ==
    /\ muts # <<>>
    /\ LET self == Len(muts)
       IN  ret' = Call("str", self, None, [exc |-> None],
                       MutationStr(muts[self].muttuple))
    /\ UNCHANGED <<muts, space>>

InitMutation ==
    /\ muts = <<>>
    /\ space = NoSpace
    /\ ret = NoCall

NextMutation ==
    \/ \E mutstr \in MutStrs, muttuple \in MutTuples : MutationInit(mutstr, muttuple)
    \/ Revert
    \/ \E dct \in RenameDicts : RenameChains(dct)
    \/ \E pdb \in Pdbs : IsMutationReversed(pdb)
    \/ Str

SpecMutation == InitMutation /\ [][NextMutation]_vars

(***************************************************************************)
(* Inputs of the MutationSpace operations.                                 *)
(***************************************************************************)
\* position keys <wild type><chain id><position>; a dict of n positions
\* uses the first n of them
KeyList ==
    << <<"Y", "C", "1", "7">>, <<"T", "A", "2", "0">>, <<"5", "C">>,
       <<"G", "B", "3">>, <<"A", "A", "1">> >>

\* candidate mutant codes of one position
MutantCodes == {<<>>, <<"A">>, <<"G">>, <<"A", "G">>, <<"A", "A">>}

SpaceDicts ==
    UNION {{[i \in 1..n |-> <<KeyList[i], v[i]>>] : v \in [1..n -> MutantCodes]}
           : n \in 0..MaxPos}

SpaceLists == {<< <<YC17T>>, <<>>, <<TA20A, TA20A>> >>}

SpaceArgs ==
    {<<Some(d), Nothing>> : d \in SpaceDicts}
    \cup {<<Nothing, Some(l)>> : l \in SpaceLists}
    \cup {<<Some(<<>>), Some(l)>> : l \in SpaceLists}
    \cup {<<Nothing, Nothing>>}

\* rows of an Affilib table: <position><chain id> and the residue list
AffilibKeys == {<<"1", "7", "C">>, <<"0", "1", "7", "C">>, <<"2", "0", "A">>}
AffilibValues == {<<"Y", "A", "G">>, <<"A", "G">>, <<"T", "A", "T">>, <<"T">>}
AffilibRow == {<<k, v>> : k \in AffilibKeys, v \in AffilibValues}
AffilibTables == UNION {[1..n -> AffilibRow] : n \in 0..MaxRows}

AffilibPdbs ==
    {(<<"C", 17>> :> "TYR") @@ (<<"A", 20>> :> "THR"),
     (<<"C", 17>> :> "GLY") @@ (<<"A", 20>> :> "THR"),
     (<<"C", 17>> :> "TYR")}

\* degrees a caller passes to a space of n positions: None, 0, ..., n + 1
Degrees(n) == {Nothing} \cup {Some(d) : d \in 0..(n + 1)}

(***************************************************************************)
(* MutationSpace object.  space is the MutationSpace under test, built by  *)
(* the first call; ret is the outcome of the last call.                    *)
(***************************************************************************)
\* space = MutationSpace(dct, lst)
MutationSpaceInit(dct, lst) ==
    /\ ret.op = None
    /\ LET r == MutationSpaceNew(dct, lst)
       IN  /\ space' = IF r.exc = None THEN r.val ELSE space
           /\ ret' = Call("MutationSpace", 0, [dct |-> dct, lst |-> lst], r, None)
    /\ UNCHANGED muts

\* space = MutationSpace.from_affilib(affilib_path, pdb_path)
FromAffilib(rows, pdb) ==
    /\ ret.op = None
    /\ LET r == from_affilib(rows, pdb)
       IN  /\ space' = IF r.exc = None THEN r.val ELSE space
           /\ ret' = Call("from_affilib", 0, [rows |-> rows, pdb |-> pdb], r, None)
    /\ UNCHANGED muts

\* space.size(d, wt)
Size(d, wt) ==
    /\ space.built
    /\ ret' = Call("size", 0, [d |-> d, wt |-> wt], [exc |-> None],
                   size(space.lst, d, wt))
    /\ UNCHANGED <<muts, space>>

\* space.construct(d, n)
Construct(d, n) ==
    /\ space.built
    /\ LET r == construct(space.lst, d, n)
       IN  ret' = Call("construct", 0, [d |-> d, n |-> n], r, r.val)
    /\ UNCHANGED <<muts, space>>

InitSpace ==
    /\ muts = <<>>
    /\ space = NoSpace
    /\ ret = NoCall

NextSpace ==
    \/ \E a \in SpaceArgs : MutationSpaceInit(a[1], a[2])
    \/ \E rows \in AffilibTables, pdb \in AffilibPdbs : FromAffilib(rows, pdb)
    \/ \E d \in Degrees(space.n_pos), wt \in BOOLEAN : Size(d, wt)
    \/ \E d \in Degrees(space.n_pos), n \in {Nothing, Some(1)} : Construct(d, n)

SpecSpace == InitSpace /\ [][NextSpace]_vars

(***************************************************************************)
(* Properties of Mutation.                                                 *)
(***************************************************************************)
\* one-letter residue codes and the shape of a point-mutation string:
\* <wild type><chain id><position digits><mutant>
Residues == {"A", "C", "G", "T", "Y"}

ValidPoint(s) ==
    /\ Len(s) >= 4
    /\ s[1] \in Residues
    /\ s[Len(s)] \in Residues
    /\ s[2] \notin Digits \cup Whitespace \cup {","}
    /\ \A x \in 3..(Len(s) - 1) : s[x] \in Digits

AllValid(muttuple) == \A k \in 1..Len(muttuple) : ValidPoint(muttuple[k])

\* r is s with the first and the last character exchanged
EndsSwapped(r, s) ==
    /\ Len(r) = Len(s)
    /\ r[1] = s[Len(s)]
    /\ r[Len(r)] = s[1]
    /\ \A x \in 2..(Len(s) - 1) : r[x] = s[x]

C5_State ==
    /\ ret.op = "revert" /\ AllValid(muts[ret.self].muttuple) => ret.exc = None
    /\ \A j \in 1..Len(muts) :
          muts[j].by = "revert" /\ AllValid(muts[muts[j].src].muttuple) =>
             LET i == muts[j].src
                 m == muts[i].muttuple
                 r == muts[j].muttuple
             IN  /\ Len(r) = Len(m)
                 /\ \A k \in 1..Len(m) : EndsSwapped(r[k], m[k])
                 /\ muts[i].by = "revert" /\ AllValid(muts[muts[i].src].muttuple)
                       => r = muts[muts[i].src].muttuple

C5_Step == ret'.op = "revert" => \A i \in 1..Len(muts) : muts'[i] = muts[i]

\* C5: for a Mutation m of valid point-mutation strings, every entry of
\* m.revert() is the entry of m with first and last character exchanged and
\* the middle unchanged, m.revert().revert() stores the same sequence as m,
\* and the call leaves m (and every other Mutation) as it was.
C5_RevertInvolution == [](C5_State) /\ [][C5_Step]_vars

\* a two-point mutation with distinct end characters, reverted twice
C5_Witness ==
    /\ Len(muts) = 3
    /\ muts[1].muttuple = <<YC17T, TA20A>>
    /\ muts[2].by = "revert" /\ muts[2].muttuple # muts[1].muttuple
    /\ muts[3].by = "revert"
    /\ ret.op = "revert" /\ ret.exc = None

C6_State ==
    ret.op = "rename_chains" /\ AllValid(muts[ret.self].muttuple) =>
       LET m   == muts[ret.self].muttuple
           dct == ret.arg
       IN  IF \E k \in 1..Len(m) : m[k][2] \notin DOMAIN dct
           THEN ret.exc = "KeyError" /\ Len(muts) = ret.self
           ELSE /\ ret.exc = None
                /\ Len(muts) = ret.self + 1
                /\ ret.val = ret.self + 1
                /\ muts[ret.val].by = "rename_chains"
                /\ LET r == muts[ret.val].muttuple
                   IN  /\ Len(r) = Len(m)
                       /\ \A k \in 1..Len(m) :
                             LET v == dct[m[k][2]]
                             IN  /\ Len(r[k]) = Len(m[k]) - 1 + Len(v)
                                 /\ r[k][1] = m[k][1]
                                 /\ SubSeq(r[k], 2, 1 + Len(v)) = v
                                 /\ \A x \in 3..Len(m[k]) :
                                       r[k][x - 1 + Len(v)] = m[k][x]

C6_Step ==
    ret'.op = "rename_chains" =>
       /\ \A i \in 1..Len(muts) : muts'[i] = muts[i]
       /\ ret'.exc # None => muts' = muts

\* C6: on a Mutation of valid point-mutation strings rename_chains(mapping)
\* replaces only the chain id (second character) of every entry by
\* mapping[chain id], keeping wild type, position, mutant and the order of
\* the entries; if some entry's chain id has no entry in the mapping the call
\* fails with KeyError, returns no Mutation, and the receiver is unchanged.
C6_RenameChains == [](C6_State) /\ [][C6_Step]_vars

\* a renamed two-point mutation whose second renaming lacks one chain id
C6_Witness ==
    /\ Len(muts) = 2
    /\ muts[1].muttuple = <<YC17T, TA20A>>
    /\ muts[2].by = "rename_chains"
    /\ muts[2].muttuple # muts[1].muttuple
    /\ ret.op = "rename_chains" /\ ret.self = 2 /\ ret.exc = "KeyError"
    /\ muts[2].muttuple[1][2] \in DOMAIN ret.arg

\* the residue the structure holds at the site a valid point mutation names
ObservedAt(pdb, mut) ==
    three_to_one(pdb[<<mut[2], DecimalValue(SubSeq(mut, 3, Len(mut) - 1))>>])

SiteKnown(pdb, mut) ==
    <<mut[2], DecimalValue(SubSeq(mut, 3, Len(mut) - 1))>> \in DOMAIN pdb

\* C7: is_mutation_reversed decides from the first point mutation only: with
\* r the residue the structure holds at that entry's site, it returns FALSE
\* if r is the declared wild type, TRUE if r is the declared mutant (and not
\* the wild type), and fails with the consistency error if r is neither;
\* the later entries do not enter.
C7_ReversedFromFirst ==
    ret.op = "is_mutation_reversed" =>
       LET m   == muts[ret.self].muttuple
           pdb == ret.arg
       IN  m # <<>> /\ ValidPoint(m[1]) /\ SiteKnown(pdb, m[1]) =>
              LET r  == ObservedAt(pdb, m[1])
                  wt == m[1][1]
                  mt == m[1][Len(m[1])]
              IN  /\ r = wt => ret.exc = None /\ ret.val = FALSE
                  /\ r # wt /\ r = mt => ret.exc = None /\ ret.val = TRUE
                  /\ r # wt /\ r # mt =>
                        ret.exc = "ValueError: neither forward nor reverse"

\* a two-point mutation whose first entry is forward while the structure
\* holds neither residue of the second
C7_Witness ==
    /\ ret.op = "is_mutation_reversed"
    /\ muts[ret.self].muttuple = <<YC17T, TA20A>>
    /\ SiteKnown(ret.arg, TA20A)
    /\ ObservedAt(ret.arg, YC17T) = "Y"
    /\ ObservedAt(ret.arg, TA20A) = "G"
    /\ ret.exc = None /\ ret.val = FALSE

\* the characters of s outside the set cs, in order
Without(s, cs) == SelectSeq(s, LAMBDA c : c \notin cs)

FromString(obj) == obj.by = "init" /\ obj.arg.muttuple = <<>>

\* C9 as stated: constructing a Mutation from a string removes all
\* whitespace (spaces, tabs, newlines) before splitting on commas, so no
\* stored entry contains whitespace and str(Mutation(s)) is s without
\* whitespace.
C9_AllWhitespaceRemoved ==
    /\ \A i \in 1..Len(muts) :
          FromString(muts[i]) =>
             \A k \in 1..Len(muts[i].muttuple) :
                \A x \in 1..Len(muts[i].muttuple[k]) :
                   muts[i].muttuple[k][x] \notin Whitespace
    /\ ret.op = "str" /\ FromString(muts[ret.self]) =>
          ret.val = Without(muts[ret.self].arg.mutstr, Whitespace)

\* C9 amended: constructing a Mutation from a string removes every space
\* character, and no other whitespace, before splitting on commas: no
\* stored entry contains a space or a comma, and str(Mutation(s)) is s with
\* its spaces removed (so the entries are the comma-separated pieces of
\* that string, in order).
C9_SpacesRemoved ==
    /\ \A i \in 1..Len(muts) :
          FromString(muts[i]) =>
             \A k \in 1..Len(muts[i].muttuple) :
                \A x \in 1..Len(muts[i].muttuple[k]) :
                   muts[i].muttuple[k][x] \notin {" ", ","}
    /\ ret.op = "str" /\ FromString(muts[ret.self]) =>
          ret.val = Without(muts[ret.self].arg.mutstr, {" "})

\* str of a Mutation built from "YC17T, TA20A"
C9_Witness ==
    /\ ret.op = "str"
    /\ FromString(muts[ret.self])
    /\ muts[ret.self].arg.mutstr = Cat(<<YC17T, <<",">>, <<" ">>, TA20A>>)
    /\ muts[ret.self].muttuple = <<YC17T, TA20A>>

(***************************************************************************)
(* Properties of MutationSpace.                                            *)
(***************************************************************************)
DictBased == space.built /\ space.dct # Nothing

\* the length of the longest slot
LongestSlot(lst) ==
    IF lst = <<>> THEN 0
    ELSE CHOOSE m \in {Len(lst[k]) : k \in 1..Len(lst)} :
            \A k \in 1..Len(lst) : Len(lst[k]) <= m

\* the elements of a set of integers in ascending order
RECURSIVE Ascending(_)
Ascending(T) ==
    IF T = {} THEN <<>>
    ELSE LET least == CHOOSE x \in T : \A y \in T : x <= y
         IN  <<least>> \o Ascending(T \ {least})

\* a choice of d slots and of one entry in each: <<S, ch>> with S the
\* ascending slot indices and ch[k] the index of the entry taken in S[k]
Choices(lst, d) ==
    LET slotSets == {T \in SUBSET (1..Len(lst)) : Cardinality(T) = d}
        entries  == [1..d -> 1..LongestSlot(lst)]
    IN  {p \in {Ascending(T) : T \in slotSets} \X entries :
            \A k \in 1..d : p[2][k] <= Len(lst[p[1][k]])}

\* the mutation string of a choice
ChoiceString(lst, p) ==
    Join(<<",">>, [k \in 1..Len(p[1]) |-> lst[p[1][k]][p[2][k]]])

\* lexicographic order of integer tuples of one length
LexLess(a, b) ==
    \E k \in 1..Len(a) : a[k] < b[k] /\ \A j \in 1..(k - 1) : a[j] = b[j]

\* slot tuple first, entry tuple second
ChoiceLess(q, p) == LexLess(q[1] \o q[2], p[1] \o p[2])

ExplicitDegree(lo, hi) ==
    ret.arg.d # Nothing /\ ret.arg.d[1] >= lo /\ ret.arg.d[1] <= hi

\* C1: for a dict-based space and d unspecified or in 0..n_pos, the list
\* construct(d) returns is as long as size(d, wt = False) says; size() is
\* the sum of size(d) for d in 1..n_pos and the length of construct().
C1_ConstructLenIsSize ==
    DictBased =>
       /\ ret.op = "construct" /\ ret.arg.n = Nothing
             /\ (ret.arg.d = Nothing \/ ExplicitDegree(0, space.n_pos)) =>
             /\ ret.exc = None
             /\ Len(ret.val) = size(space.lst, ret.arg.d, FALSE)
       /\ ret.op = "size" /\ ret.arg.d = Nothing /\ ~ret.arg.wt =>
             /\ ret.val = Sum([d \in 1..space.n_pos |->
                                 size(space.lst, Some(d), FALSE)])
             /\ ret.val = Len(construct(space.lst, Nothing, Nothing).val)

\* construct(2) on three positions, each with a candidate
C1_Witness ==
    /\ DictBased /\ space.n_pos = 3
    /\ ret.op = "construct" /\ ret.exc = None
    /\ ret.arg.d = Some(2)
    /\ Len(ret.val) = 8

\* C2 as stated: wt counts only at degree 0; for every explicit d >= 1 and
\* for the unspecified degree size(d, wt = True) = size(d, wt = False).
C2_WildTypeOnlyAtZero ==
    ret.op = "size" =>
       /\ ret.arg.d = Some(0) => ret.val = (IF ret.arg.wt THEN 1 ELSE 0)
       /\ ret.arg.d # Some(0) /\ ret.arg.wt =>
             ret.val = size(space.lst, ret.arg.d, FALSE)

\* C2 amended: size(0, wt) is 1 with wt and 0 without; for every explicit
\* degree d >= 1, size(d, wt = True) = size(d, wt = False) + 1; for the
\* unspecified degree wt is ignored, size(wt = True) = size(wt = False).
C2_WildTypeAddsOne ==
    ret.op = "size" =>
       /\ ret.arg.d = Some(0) => ret.val = (IF ret.arg.wt THEN 1 ELSE 0)
       /\ ExplicitDegree(1, space.n_pos + 1) /\ ret.arg.wt =>
             ret.val = size(space.lst, ret.arg.d, FALSE) + 1
       /\ ret.arg.d = Nothing /\ ret.arg.wt =>
             ret.val = size(space.lst, Nothing, FALSE)

\* size(2, wt = True) on three positions with candidates
C2_Witness ==
    /\ space.n_pos = 3
    /\ ret.op = "size" /\ ret.arg.wt /\ ret.arg.d = Some(2)
    /\ ret.val > 1

\* C3: for a dict-based space (empty slots and no slots included)
\* construct() holds no empty string: one entry, the pure wild type, is
\* removed from the product of the slots with their wild-type choice.
C3_NoIdentityInFullSpace ==
    DictBased /\ ret.op = "construct" /\ ret.arg.d = Nothing
          /\ ret.arg.n = Nothing =>
       /\ ret.exc = None
       /\ \A i \in 1..Len(ret.val) : ret.val[i] # <<>>
       /\ Len(ret.val) =
             Prod([k \in 1..space.n_pos |-> Len(space.lst[k]) + 1]) - 1

\* construct() on three positions, one of them without candidates
C3_Witness ==
    /\ DictBased /\ space.n_pos = 3
    /\ \E k \in 1..3 : space.lst[k] = <<>>
    /\ ret.op = "construct" /\ ret.arg.d = Nothing /\ ret.exc = None
    /\ Len(ret.val) >= 5

ExampleDict ==
    << <<KeyList[1], <<"A", "G">> >>, <<KeyList[2], <<"A">> >> >>

\* C4: for an explicit degree d >= 1 construct(d) lists the d-slot
\* combinations in ascending order of their slot-index tuples and, within a
\* combination, the product of the slots with the right-most slot fastest:
\* the string of a choice stands at the rank of the choice in that order.
\* For {'YC17': 'AG', 'TA20': 'A'}: construct(1) = [YC17A, YC17G, TA20A],
\* construct(2) = [YC17A,TA20A  YC17G,TA20A].
C4_ConstructOrder ==
    space.built /\ ret.op = "construct" /\ ret.arg.n = Nothing
          /\ ExplicitDegree(1, space.n_pos + 1) =>
       LET d == ret.arg.d[1]
           P == Choices(space.lst, d)
       IN  /\ ret.exc = None
           /\ Len(ret.val) = Cardinality(P)
           /\ \A p \in P :
                 ret.val[1 + Cardinality({q \in P : ChoiceLess(q, p)})]
                    = ChoiceString(space.lst, p)
           /\ space.dct = Some(ExampleDict) /\ d = 1 =>
                 ret.val = << KeyList[1] \o <<"A">>, KeyList[1] \o <<"G">>,
                              KeyList[2] \o <<"A">> >>
           /\ space.dct = Some(ExampleDict) /\ d = 2 =>
                 ret.val = << KeyList[1] \o <<"A", ",">> \o KeyList[2] \o <<"A">>,
                              KeyList[1] \o <<"G", ",">> \o KeyList[2] \o <<"A">> >>

\* construct(2) on three positions with two, one and two candidates
C4_Witness ==
    /\ DictBased /\ space.n_pos = 3
    /\ Len(space.lst[1]) = 2 /\ Len(space.lst[2]) = 1 /\ Len(space.lst[3]) = 2
    /\ space.lst[1][1] # space.lst[1][2]
    /\ ret.op = "construct" /\ ret.exc = None /\ ret.arg.d = Some(2)
    /\ Len(ret.val) = 8

\* number of point mutations of a mutation string
NPoints(str) ==
    IF str = <<>> THEN 0
    ELSE 1 + Cardinality({x \in 1..Len(str) : str[x] = ","})

Count(xs, x) == Cardinality({i \in 1..Len(xs) : xs[i] = x})

SameElements(xs, ys) ==
    /\ Len(xs) = Len(ys)
    /\ \A i \in 1..Len(xs) : Count(xs, xs[i]) = Count(ys, xs[i])

\* C10: for a dict-based space and d in 1..n_pos every string of
\* construct(d) joins d entries of d distinct slots in ascending slot
\* order; the strings of construct() with exactly d point mutations are, as
\* a multiset, the elements of construct(d), so construct() has the
\* elements of construct(1), ..., construct(n_pos) together.
C10_DegreePartition ==
    DictBased /\ ret.op = "construct" /\ ret.arg.n = Nothing =>
       /\ ExplicitDegree(1, space.n_pos) =>
             \A i \in 1..Len(ret.val) :
                /\ NPoints(ret.val[i]) = ret.arg.d[1]
                /\ \E p \in Choices(space.lst, ret.arg.d[1]) :
                      ret.val[i] = ChoiceString(space.lst, p)
       /\ ret.arg.d = Nothing =>
             /\ \A d \in 1..space.n_pos :
                   SameElements(
                      SelectSeq(ret.val, LAMBDA str : NPoints(str) = d),
                      construct(space.lst, Some(d), Nothing).val)
             /\ SameElements(
                   ret.val,
                   Cat([d \in 1..space.n_pos |->
                          construct(space.lst, Some(d), Nothing).val]))

\* construct() on three positions, one with a repeated candidate
C10_Witness ==
    /\ DictBased /\ space.n_pos = 3
    /\ \E k \in 1..3 : Len(space.lst[k]) = 2 /\ space.lst[k][1] = space.lst[k][2]
    /\ ret.op = "construct" /\ ret.exc = None /\ ret.arg.d = Nothing
    /\ Len(ret.val) >= 11

(***************************************************************************)
(* Properties of MutationSpace.from_affilib.                               *)
(***************************************************************************)
RowChain(row) == row[1][Len(row[1])]
RowPos(row) == DecimalValue(SubSeq(row[1], 1, Len(row[1]) - 1))
RowSite(row) == <<RowChain(row), RowPos(row)>>
RowWildType(pdb, row) == three_to_one(pdb[RowSite(row)])
RowHasWildType(pdb, row) ==
    \E x \in 1..Len(row[2]) : row[2][x] = RowWildType(pdb, row)

\* decimal digits without leading zeros
RECURSIVE Canonical(_)
Canonical(ds) ==
    IF Len(ds) > 1 /\ Head(ds) = "0" THEN Canonical(Tail(ds)) ELSE ds

\* <wildType><chainId><position> of a row
RowKey(pdb, row) ==
    <<RowWildType(pdb, row), RowChain(row)>>
       \o Canonical(SubSeq(row[1], 1, Len(row[1]) - 1))

\* the slot of a row: its candidates without the wild type, behind the key
RowSlot(pdb, row) ==
    LET cs == Without(row[2], {RowWildType(pdb, row)})
    IN  [x \in 1..Len(cs) |-> RowKey(pdb, row) \o <<cs[x]>>]

SitesKnown(pdb, rows) == \A i \in 1..Len(rows) : RowSite(rows[i]) \in DOMAIN pdb

\* C8 as stated: from_affilib fails with the missing-wild-type error and
\* builds no space whenever some row's residue list lacks the residue the
\* structure holds at the row's site; otherwise the space has for each row
\* a slot keyed <wildType><chainId><position> holding the row's candidates
\* without the wild type.
C8_EveryRowChecked ==
    ret.op = "from_affilib" /\ SitesKnown(ret.arg.pdb, ret.arg.rows) =>
       LET rows == ret.arg.rows
           pdb  == ret.arg.pdb
       IN  IF \E i \in 1..Len(rows) : ~RowHasWildType(pdb, rows[i])
           THEN /\ ret.exc = "ValueError: Residue list does not contain wild type"
                /\ ~space.built
           ELSE /\ ret.exc = None
                /\ space.built
                /\ \A i \in 1..Len(rows) :
                      \E k \in 1..space.n_pos :
                         /\ space.dct[1][k][1] = RowKey(pdb, rows[i])
                         /\ space.lst[k] = RowSlot(pdb, rows[i])

\* a row counts unless a later row repeats its key text
Effective(rows) ==
    {i \in 1..Len(rows) : \A j \in (i + 1)..Len(rows) : rows[j][1] # rows[i][1]}

\* C8 amended: rows whose key text a later row repeats are dropped before
\* any check.  from_affilib fails with the missing-wild-type error and
\* builds no space whenever one of the remaining rows lacks the residue the
\* structure holds at its site.  Otherwise it succeeds: every slot is the
\* slot <wildType><chainId><position> + candidate of a remaining row, with
\* every occurrence of the wild type removed, every remaining row's key is
\* the key of a slot, and no slot entry is an identity substitution; when
\* the rows name pairwise distinct sites there is exactly one slot per row,
\* in row order.
C8_LastRowPerKeyChecked ==
    ret.op = "from_affilib" /\ SitesKnown(ret.arg.pdb, ret.arg.rows) =>
       LET rows == ret.arg.rows
           pdb  == ret.arg.pdb
           Eff  == Effective(rows)
       IN  IF \E i \in Eff : ~RowHasWildType(pdb, rows[i])
           THEN /\ ret.exc = "ValueError: Residue list does not contain wild type"
                /\ ~space.built
           ELSE /\ ret.exc = None
                /\ space.built
                /\ space.lst = dict_to_list(space.dct[1])
                /\ \A k \in 1..space.n_pos :
                      /\ \E i \in Eff :
                            /\ space.dct[1][k][1] = RowKey(pdb, rows[i])
                            /\ space.lst[k] = RowSlot(pdb, rows[i])
                      /\ \A x \in 1..Len(space.lst[k]) :
                            LET e == space.lst[k][x]
                            IN  e[Len(e)] # e[1]
                /\ \A i \in Eff :
                      \E k \in 1..space.n_pos :
                         space.dct[1][k][1] = RowKey(pdb, rows[i])
                /\ (\A i, j \in 1..Len(rows) :
                       i # j => RowSite(rows[i]) # RowSite(rows[j])) =>
                      /\ space.n_pos = Len(rows)
                      /\ \A i \in 1..Len(rows) :
                            /\ space.dct[1][i][1] = RowKey(pdb, rows[i])
                            /\ space.lst[i] = RowSlot(pdb, rows[i])

\* a table of two rows at distinct sites, both holding their wild type, one
\* of them twice
C8_Witness ==
    /\ ret.op = "from_affilib" /\ ret.exc = None
    /\ space.built /\ space.n_pos = 2
    /\ Len(ret.arg.rows) = 2
    /\ Len(space.lst[1]) = 2
    /\ \E i \in 1..2 : Len(ret.arg.rows[i][2]) - Len(space.lst[i]) = 2

====
